---- MODULE Spec2Model ----
(***************************************************************************)
(* A model of simple_di (src/simple_di/__init__.py): the Provider          *)
(* abstraction (set / get / reset / patch and its exported state), the     *)
(* ProviderMeta state-field accretion, the inject wrapper and              *)
(* sync_container.                                                         *)
(*                                                                         *)
(* Python values are modelled as integers: 1..MaxVal are ordinary values,  *)
(* and a few markers stand for the objects the code compares by identity   *)
(* or type (the sentinel, None, a raised NotImplementedError, the Provider *)
(* object used as a parameter default).                                    *)
(***************************************************************************)
EXTENDS Integers, Sequences, FiniteSets, TLC

\* ---------------------------------------------------------------- bounds
MaxVal == 2
MaxDepth == 2
MaxOps == 3
MaxClasses == 3

\* ---------------------------------------------------------------- values
\* sentinel = _SentinelClass(); not_passed and skip are the same object.
sentinel == 0
\* Python's None.
None == -1
\* The outcome of a call that raised NotImplementedError (Provider._provide).
NotImplementedError == -2
\* The Provider object Provider_A, when it is itself passed around as a value.
ProviderA == -3

Vals == 1..MaxVal

VARIABLES
    cls,          \* class of the provider P: "Provider" (the base) or "Concrete"
    computed,     \* what the concrete class's _provide returns
    override,     \* P._override
    stack,        \* the open `with P.patch(v)` scopes, innermost last
    raising,      \* an exception is propagating out of the innermost scope
    lastExit,     \* record of the scope just left (forgotten at the next operation)
    log,          \* the set / reset calls made so far (history)
    lastGet,      \* record of the most recent get() call
    injected,     \* f has been wrapped by inject
    squeeze_none, \* the mode f was wrapped with
    call,         \* the call of the wrapped f in progress, with what f received
    heap,         \* Provider objects of the container world: object -> attributes
    attrs,        \* container instances: instance -> field name -> value
    synced,       \* record of the most recent sync_container call
    classes,      \* Provider classes defined so far: name -> [mro, STATE_FIELDS]
    exporter,     \* the instance whose state was exported last
    mapping,      \* the mapping __getstate__ returned
    fresh         \* the instance __setstate__ was applied to

provVars == <<cls, computed, override>>
patchVars == <<stack, raising, lastExit>>
histVars == <<log, lastGet>>
injVars == <<injected, squeeze_none, call>>
syncVars == <<heap, attrs, synced>>
metaVars == <<classes, exporter, mapping, fresh>>
vars == <<provVars, patchVars, histVars, injVars, syncVars, metaVars>>

\* ------------------------------------------------------------- Provider

\* Provider._provide: the base class raises; a concrete class computes a value.
provide(c, d) == IF c = "Provider" THEN NotImplementedError ELSE d

\* Provider.set
setAlways(ov, value) == value
set(ov, value) == IF value = sentinel THEN ov ELSE value

\* Provider.reset
reset(ov) == sentinel

\* Provider.get
get(ov, c, d) == IF ov # sentinel THEN ov ELSE provide(c, d)

\* Provider.patch up to its yield: the override left in force for the body.
patchInstallAlways(ov, value) == value
patchInstall(ov, value) == IF value = sentinel THEN ov ELSE value

\* Provider.patch: the generator's local `original` (never assigned, and never
\* read, on the sentinel path).
patchOriginal(ov, value) == IF value = sentinel THEN sentinel ELSE ov

\* Provider.patch resumed after its yield (the body ended normally).
patchResumeKeep(frame, ov) == ov
patchResume(frame, ov) ==
    IF frame.value = sentinel THEN ov ELSE frame.original

\* Provider.patch when the body's exception is thrown in at the yield: nothing
\* encloses the yield, so the exception leaves the generator at once and the
\* assignment after the yield is not executed.
patchThrow(frame, ov) == ov

NoExit ==
    [kind |-> "none", value |-> sentinel, entry |-> sentinel,
     before |-> sentinel, after |-> sentinel, touched |-> FALSE]
NoGet == [called |-> FALSE, result |-> sentinel, before |-> sentinel, after |-> sentinel]

\* Every open scope has had a further set / reset / patch performed inside it.
Touch(s) == [i \in DOMAIN s |-> [s[i] EXCEPT !.touched = TRUE]]
Top(s) == s[Len(s)]
Pop(s) == SubSeq(s, 1, Len(s) - 1)

\* P.set(v), inside or outside a scope
Set(v) ==
    /\ ~raising
    /\ call.active = FALSE
    /\ override' = set(override, v)
    /\ stack' = Touch(stack)
    /\ lastExit' = NoExit
    /\ UNCHANGED <<cls, computed, raising, histVars, injVars, syncVars, metaVars>>

\* P.reset(), inside or outside a scope
Reset ==
    /\ ~raising
    /\ call.active = FALSE
    /\ override' = reset(override)
    /\ stack' = Touch(stack)
    /\ lastExit' = NoExit
    /\ UNCHANGED <<cls, computed, raising, histVars, injVars, syncVars, metaVars>>

\* `with P.patch(v):` is entered: the generator runs to its yield.
PatchEnter(v) ==
    /\ ~raising
    /\ Len(stack) < MaxDepth
    /\ override' = patchInstall(override, v)
    /\ stack' = Append(Touch(stack),
                       [value |-> v, original |-> patchOriginal(override, v),
                        entry |-> override, touched |-> FALSE])
    /\ lastExit' = NoExit
    /\ UNCHANGED <<cls, computed, raising, histVars, injVars, syncVars, metaVars>>

\* The body of the innermost scope ends normally: the generator is resumed.
PatchExit ==
    /\ ~raising
    /\ stack # <<>>
    /\ override' = patchResume(Top(stack), override)
    /\ stack' = Touch(Pop(stack))
    /\ lastExit' = [kind |-> "normal", value |-> Top(stack).value,
                    entry |-> Top(stack).entry, before |-> override,
                    after |-> override', touched |-> Top(stack).touched]
    /\ UNCHANGED <<cls, computed, raising, histVars, injVars, syncVars, metaVars>>

\* The body of the innermost scope raises.
Raise ==
    /\ ~raising
    /\ stack # <<>>
    /\ raising' = TRUE
    /\ lastExit' = NoExit
    /\ UNCHANGED <<provVars, stack, histVars, injVars, syncVars, metaVars>>

\* The exception leaves the innermost scope: it is thrown into the generator.
Unwind ==
    /\ raising
    /\ stack # <<>>
    /\ override' = patchThrow(Top(stack), override)
    /\ stack' = Touch(Pop(stack))
    /\ lastExit' = [kind |-> "fail", value |-> Top(stack).value,
                    entry |-> Top(stack).entry, before |-> override,
                    after |-> override', touched |-> Top(stack).touched]
    /\ UNCHANGED <<cls, computed, raising, histVars, injVars, syncVars, metaVars>>

\* A handler around the scope just left (or the top level) stops the exception.
Catch ==
    /\ raising
    /\ raising' = FALSE
    /\ UNCHANGED <<provVars, stack, lastExit, histVars, injVars, syncVars, metaVars>>

\* P.set(v) outside any scope, recorded in the history
HistSet(v) ==
    /\ Len(log) < MaxOps
    /\ override' = set(override, v)
    /\ log' = Append(log, [op |-> "set", value |-> v])
    /\ UNCHANGED <<cls, computed, lastGet, patchVars, injVars, syncVars, metaVars>>

\* P.reset() outside any scope, recorded in the history
HistReset ==
    /\ Len(log) < MaxOps
    /\ override' = reset(override)
    /\ log' = Append(log, [op |-> "reset", value |-> sentinel])
    /\ UNCHANGED <<cls, computed, lastGet, patchVars, injVars, syncVars, metaVars>>

\* P.get()
HistGet ==
    /\ lastGet' = [called |-> TRUE, result |-> get(override, cls, computed),
                   before |-> override, after |-> override]
    /\ UNCHANGED <<provVars, log, patchVars, injVars, syncVars, metaVars>>

\* --------------------------------------------------------------- inject
\* The wrapped function is f(a = Provider_A, b = <literal>): inspect.signature(f),
\* read once when f is wrapped.
Params == <<"a", "b">>
ParamNames == {Params[i] : i \in 1..Len(Params)}
ParamIndex(p) == CHOOSE i \in 1..Len(Params) : Params[i] = p
Literal == MaxVal
Default(p) == IF p = "a" THEN ProviderA ELSE Literal

\* What a call site can pass for a parameter.
ArgVals == Vals \cup {sentinel, None, ProviderA}
ArgSeqs == UNION {[1..n -> ArgVals] : n \in 0..Len(Params)}
KwargMaps == UNION {[K -> ArgVals] : K \in SUBSET ParamNames}

\* _inject's wrapper: which supplied values survive the filter.
keepUnlessSentinel(x, sq) == x # sentinel
keep(x, sq) == IF sq THEN x # None ELSE x # sentinel

\* _inject's wrapper: filtered_args
filterArgs(args, sq) == SelectSeq(args, LAMBDA x : keep(x, sq))

\* _inject's wrapper: filtered_kwargs
filterKwargs(kw, sq) == [k \in {n \in DOMAIN kw : keep(kw[n], sq)} |-> kw[k]]

\* sig.bind_partial(*filtered_args, **filtered_kwargs): positional arguments
\* bind to the leading parameters in order; TypeError on too many positional
\* arguments or on a parameter bound twice.
bind_partial(fargs, fkw) ==
    LET positional == {Params[i] : i \in 1..IF Len(fargs) <= Len(Params)
                                             THEN Len(fargs) ELSE Len(Params)}
        ok == /\ Len(fargs) <= Len(Params)
              /\ DOMAIN fkw \cap positional = {}
    IN  [ok |-> ok,
         arguments |->
            IF ok
            THEN [p \in positional \cup DOMAIN fkw |->
                    IF p \in positional THEN fargs[ParamIndex(p)] ELSE fkw[p]]
            ELSE <<>>]

\* bind.apply_defaults()
apply_defaults(arguments) ==
    [p \in ParamNames |-> IF p \in DOMAIN arguments THEN arguments[p] ELSE Default(p)]

\* _inject_args / _inject_kwargs, for one bound value
injectValue(x, ov, c, d) == IF x = ProviderA THEN get(ov, c, d) ELSE x

\* inject(f, squeeze_none = sq) (or inject(squeeze_none = sq)(f)): wrapping an
\* already wrapped function returns it as it is.
Inject(sq) ==
    /\ call.active = FALSE
    /\ injected' = TRUE
    /\ squeeze_none' = IF injected THEN squeeze_none ELSE sq
    /\ UNCHANGED <<provVars, patchVars, histVars, call, syncVars, metaVars>>

\* The wrapped f is called with args and kwargs; `call` records what f receives.
Call(args, kwargs) ==
    /\ injected
    /\ call.active = FALSE
    /\ LET b == bind_partial(filterArgs(args, squeeze_none),
                             filterKwargs(kwargs, squeeze_none))
           full == apply_defaults(b.arguments)
           got == [p \in ParamNames |-> injectValue(full[p], override, cls, computed)]
       IN  call' = [active |-> TRUE, args |-> args, kwargs |-> kwargs,
                    status |-> IF ~b.ok THEN "TypeError"
                               ELSE IF \E p \in ParamNames : got[p] = NotImplementedError
                                    THEN "NotImplementedError"
                                    ELSE "ok",
                    received |-> IF b.ok THEN got ELSE <<>>]
    /\ UNCHANGED <<provVars, patchVars, histVars, injected, squeeze_none, syncVars, metaVars>>

CallAny ==
    /\ injected
    /\ call.active = FALSE
    /\ \E args \in ArgSeqs, kwargs \in KwargMaps : Call(args, kwargs)

\* The call returns (or its exception has propagated to the caller).
Return ==
    /\ call.active
    /\ call' = [active |-> FALSE, args |-> <<>>, kwargs |-> <<>>,
                status |-> "none", received |-> <<>>]
    /\ UNCHANGED <<provVars, patchVars, histVars, injected, squeeze_none, syncVars, metaVars>>

\* ------------------------------------------------------- sync_container
\* Provider.STATE_FIELDS of the base class.
ProviderStateFields == {"_override"}

\* Provider.__getstate__
getstate(obj, fields) == [f \in fields |-> obj[f]]

\* Provider.__setstate__
setstate(obj, state, fields) ==
    [a \in DOMAIN obj \cup fields |-> IF a \in fields THEN state[a] ELSE obj[a]]

\* Values of fields and attributes: a Provider object, a container instance,
\* None (the attribute is absent), or anything else (a literal, no default).
Prov(o) == [kind |-> "provider", ref |-> o]
Cont(i) == [kind |-> "container", ref |-> i]
NoneAttr == [kind |-> "none", ref |-> ""]
Other == [kind |-> "other", ref |-> ""]

\* Two @container declarations:
\*   class N: g: Provider = d_g
\*   class T: p: Provider = d_p;  q: int = <literal>;  n: N = nd
\* d_p and d_g are the Provider objects baked into the declarations, nd the
\* instance of N that is the default of T.n.  I is a live instance of T and In
\* a live instance of N; i_p, i_g and n_g are Provider objects of their own.
ProviderObjs == {"d_p", "d_g", "i_p", "i_g", "n_g"}
DefaultProviders == {"d_p", "d_g"}
Instances == {"I", "In", "nd"}
TypeOf(inst) == IF inst = "I" THEN "T" ELSE "N"

\* dataclasses.fields(to_): the declared fields with their type-level defaults
Fields(type) ==
    IF type = "T"
    THEN << [name |-> "p", default |-> Prov("d_p")],
            [name |-> "q", default |-> Other],
            [name |-> "n", default |-> Cont("nd")] >>
    ELSE << [name |-> "g", default |-> Prov("d_g")] >>

\* getattr(from_, field.name, None)
getattr(inst, name) ==
    IF name \in DOMAIN attrs[inst] THEN attrs[inst][name] ELSE NoneAttr

RECURSIVE sync_container(_, _, _)
RECURSIVE syncFields(_, _, _)

\* sync_container, nested container field: the call made for it.
syncNestedSwapped(h, src, target) == sync_container(h, target.ref, src.ref)
syncNested(h, src, target) == sync_container(h, src.ref, target.ref)

\* sync_container, one iteration of its loop; h is the state of every Provider.
syncFieldIntoTarget(h, from_, field) ==
    LET src == field.default
        target == getattr(from_, field.name)
    IN  IF target.kind = "none" THEN h
        ELSE IF src.kind = "provider"
        THEN [h EXCEPT ![target.ref] =
                 setstate(h[target.ref],
                          getstate(h[src.ref], ProviderStateFields),
                          ProviderStateFields)]
        ELSE IF src.kind = "container"
        THEN syncNested(h, src, target)
        ELSE h
syncField(h, from_, field) ==
    LET src == field.default
        target == getattr(from_, field.name)
    IN  IF target.kind = "none" THEN h
        ELSE IF src.kind = "provider"
        THEN [h EXCEPT ![src.ref] =
                 setstate(h[src.ref],
                          getstate(h[target.ref], ProviderStateFields),
                          ProviderStateFields)]
        ELSE IF src.kind = "container"
        THEN syncNested(h, src, target)
        ELSE h

\* sync_container's loop over the fields, in declaration order
syncFields(h, from_, fs) ==
    IF fs = <<>> THEN h
    ELSE syncFields(syncField(h, from_, Head(fs)), from_, Tail(fs))

\* sync_container(from_, to_)
sync_container(h, from_, to_) == syncFields(h, from_, Fields(TypeOf(to_)))

NoSync == [done |-> FALSE, from_ |-> "", to_ |-> "", pre |-> <<>>]

\* The Provider objects some declaration or instance refers to.
Live ==
    DefaultProviders \cup
    ({getattr(i, n).ref : i \in Instances, n \in {"p", "g"}} \ {""})

\* o.set(v) on a Provider object of the container world
ProviderSet(o, v) ==
    /\ o \in Live
    /\ heap' = [heap EXCEPT ![o] =
                   [a \in DOMAIN heap[o] |->
                       IF a = "_override" THEN set(heap[o][a], v) ELSE heap[o][a]]]
    /\ synced' = NoSync
    /\ UNCHANGED <<provVars, patchVars, histVars, injVars, attrs, metaVars>>

\* o.reset() on a Provider object of the container world
ProviderReset(o) ==
    /\ o \in Live
    /\ heap' = [heap EXCEPT ![o] =
                   [a \in DOMAIN heap[o] |->
                       IF a = "_override" THEN reset(heap[o][a]) ELSE heap[o][a]]]
    /\ synced' = NoSync
    /\ UNCHANGED <<provVars, patchVars, histVars, injVars, attrs, metaVars>>

\* sync_container(from_, to_) on two instances of the same container type
SyncContainer(from_, to_) ==
    /\ TypeOf(from_) = TypeOf(to_)
    /\ heap' = sync_container(heap, from_, to_)
    /\ synced' = [done |-> TRUE, from_ |-> from_, to_ |-> to_, pre |-> heap]
    /\ UNCHANGED <<provVars, patchVars, histVars, injVars, attrs, metaVars>>

\* ---------------------------------------------------------- ProviderMeta
\* Names for the Provider subclasses a program defines, in definition order,
\* and the state fields they may declare beyond the base's "_override".
ClassNames == <<"A", "B", "C", "D", "E">>
ExtraFields == {"_cache", "_timestamp"}

\* ProviderMeta.__new__: STATE_FIELDS of the new class, from the state_fields
\* keyword, the STATE_FIELDS of each base and the class body's own
\* STATE_FIELDS attribute.
metaNewOwnOnly(state_fields, baseFields, attrFields) == state_fields \cup attrFields
metaNew(state_fields, baseFields, attrFields) ==
    (state_fields \cup UNION baseFields) \cup attrFields

NoInstance == [cls |-> "", attrs |-> <<>>]

\* class Provider(Generic[VT], metaclass=ProviderMeta): STATE_FIELDS = ("_override",)
ProviderClass ==
    [mro |-> {}, STATE_FIELDS |-> metaNew({}, {}, {"_override"})]

\* class <name>(*bases, state_fields=...): the metaclass computes STATE_FIELDS,
\* type.__new__ the ancestors.
DefineClass(bases, state_fields, attrFields) ==
    /\ Cardinality(DOMAIN classes) <= MaxClasses
    /\ exporter = NoInstance
    /\ bases # {}
    /\ classes' = classes @@
          (ClassNames[Cardinality(DOMAIN classes)] :>
              [mro |-> bases \cup UNION {classes[b].mro : b \in bases},
               STATE_FIELDS |->
                  metaNew(state_fields,
                          {classes[b].STATE_FIELDS : b \in bases}, attrFields)])
    /\ UNCHANGED <<provVars, patchVars, histVars, injVars, syncVars, exporter, mapping, fresh>>

\* Instances of the Provider classes. Besides its state fields an instance
\* carries an attribute that is no state field.
AttrNames(c) == classes[c].STATE_FIELDS \cup {"_scratch"}

\* The class defined last. STATE_FIELDS of a class is fixed when the class is
\* defined, so instantiating every class while it is the newest one covers
\* every class.
Newest ==
    IF Cardinality(DOMAIN classes) = 1 THEN "Provider"
    ELSE ClassNames[Cardinality(DOMAIN classes) - 1]

\* x.__getstate__() on an instance x of class c whose state fields hold `values`
GetState(c, values) ==
    /\ exporter = NoInstance
    /\ c = Newest
    /\ exporter' = [cls |-> c,
                    attrs |-> [a \in AttrNames(c) |->
                                 IF a = "_scratch" THEN MaxVal ELSE values[a]]]
    /\ mapping' = getstate(exporter'.attrs, classes[c].STATE_FIELDS)
    /\ UNCHANGED <<provVars, patchVars, histVars, injVars, syncVars, classes, fresh>>

\* y.__setstate__(mapping) on a fresh instance y of the exporter's class, whose
\* state fields all hold v0 so far
SetState(v0) ==
    /\ exporter # NoInstance
    /\ fresh = NoInstance
    /\ fresh' = [cls |-> exporter.cls,
                 attrs |-> setstate([a \in AttrNames(exporter.cls) |->
                                        IF a = "_scratch" THEN sentinel ELSE v0],
                                    mapping, classes[exporter.cls].STATE_FIELDS)]
    /\ UNCHANGED <<provVars, patchVars, histVars, injVars, syncVars, classes, exporter, mapping>>

\* Both instances are dropped.
Discard ==
    /\ fresh # NoInstance
    /\ exporter' = NoInstance
    /\ mapping' = <<>>
    /\ fresh' = NoInstance
    /\ UNCHANGED <<provVars, patchVars, histVars, injVars, syncVars, classes>>

\* ------------------------------------------- initial states, specifications
NoCall ==
    [active |-> FALSE, args |-> <<>>, kwargs |-> <<>>, status |-> "none",
     received |-> <<>>]

InitProvider ==
    /\ cls \in {"Provider", "Concrete"}
    /\ computed \in IF cls = "Provider" THEN {sentinel} ELSE Vals
    /\ override = sentinel
InitPatchVars == stack = <<>> /\ raising = FALSE /\ lastExit = NoExit
InitHistVars == log = <<>> /\ lastGet = NoGet
InitInjVars == injected = FALSE /\ squeeze_none = FALSE /\ call = NoCall
InitSyncVars == heap = <<>> /\ attrs = <<>> /\ synced = NoSync
InitMetaVars ==
    classes = <<>> /\ exporter = NoInstance /\ mapping = <<>> /\ fresh = NoInstance

\* One Provider P, of the base class or of a concrete class, nothing done yet.
InitPatch ==
    /\ InitProvider /\ InitPatchVars /\ InitHistVars
    /\ InitInjVars /\ InitSyncVars /\ InitMetaVars

\* set / reset / patch scopes on P, with bodies that end normally or raise.
NextPatch ==
    \/ \E v \in Vals \cup {sentinel} : Set(v)
    \/ Reset
    \/ \E v \in Vals \cup {sentinel} : PatchEnter(v)
    \/ PatchExit
    \/ Raise
    \/ Unwind
    \/ Catch

SpecPatch == InitPatch /\ [][NextPatch]_vars

\* set / reset / get on P outside any patch scope, with the history kept.
NextHistory ==
    \/ \E v \in Vals \cup {sentinel} : HistSet(v)
    \/ HistReset
    \/ HistGet

SpecHistory == InitPatch /\ [][NextHistory]_vars

\* f(a = P, b = <literal>) wrapped by inject and called, P being set and reset
\* between the calls.
NextInject ==
    \/ \E sq \in BOOLEAN : Inject(sq)
    \/ \E v \in Vals \cup {sentinel} : Set(v)
    \/ Reset
    \/ CallAny
    \/ Return

SpecInject == InitPatch /\ [][NextInject]_vars

\* The container world: each instance was built either with the declaration's
\* defaults or with objects of its own, or lacks the attribute (None).
InitSync ==
    /\ cls = "Concrete" /\ computed = 1 /\ override = sentinel
    /\ InitPatchVars /\ InitHistVars /\ InitInjVars /\ InitMetaVars
    /\ heap = [o \in ProviderObjs |-> [a \in ProviderStateFields |-> sentinel]]
    /\ \E ip \in {Prov("i_p"), Prov("d_p"), NoneAttr},
          inn \in {Cont("In"), Cont("nd"), NoneAttr},
          ig \in {Prov("i_g"), Prov("d_g"), NoneAttr},
          ng \in {Prov("n_g"), Prov("d_g"), NoneAttr} :
          attrs = [i \in Instances |->
                     IF i = "I" THEN [p |-> ip, q |-> Other, n |-> inn]
                     ELSE IF i = "In" THEN [g |-> ig]
                     ELSE [g |-> ng]]
    /\ synced = NoSync

NextSync ==
    \/ \E o \in ProviderObjs, v \in Vals \cup {sentinel} : ProviderSet(o, v)
    \/ \E o \in ProviderObjs : ProviderReset(o)
    \/ \E from_ \in Instances, to_ \in Instances : SyncContainer(from_, to_)

SpecSync == InitSync /\ [][NextSync]_vars

\* Class definitions at any time, and one export / import at a time.
InitMeta ==
    /\ cls = "Concrete" /\ computed = MaxVal /\ override = sentinel
    /\ InitPatchVars /\ InitHistVars /\ InitInjVars /\ InitSyncVars
    /\ classes = ("Provider" :> ProviderClass)
    /\ exporter = NoInstance /\ mapping = <<>> /\ fresh = NoInstance

NextMeta ==
    \/ \E bases \in SUBSET DOMAIN classes, sf \in SUBSET ExtraFields, af \in SUBSET ExtraFields :
          DefineClass(bases, sf, af)
    \/ \E values \in [classes[Newest].STATE_FIELDS -> Vals \cup {sentinel}] :
          GetState(Newest, values)
    \/ \E v0 \in Vals \cup {sentinel} : SetState(v0)
    \/ Discard

SpecMeta == InitMeta /\ [][NextMeta]_vars

\* ================================================================ claims

\* The computed default of P, as the claims speak of it.
ComputedDefault == IF cls = "Provider" THEN NotImplementedError ELSE computed
\* What P.get() returns in the current state.
Current == IF override # sentinel THEN override ELSE ComputedDefault

\* C1: when the body of `with P.patch(v)` (v not the sentinel) fails, then once
\* the scope has been left P's override is again what it was on entry.
C1_PatchRestoresOnFailure ==
    (lastExit.kind = "fail" /\ lastExit.value # sentinel)
        => /\ lastExit.after = lastExit.entry
           /\ override = lastExit.entry

\* C2: inside `with P.patch(v)` (v not the sentinel), as long as nothing further
\* was done to P, get() is v; when the body ends normally the override is again
\* the one held on entry, whatever set / reset / nested patch ran in the body.
C2_PatchRestoresOnNormalExit ==
    /\ \A i \in DOMAIN stack :
          (stack[i].value # sentinel /\ ~stack[i].touched)
              => get(override, cls, computed) = stack[i].value
    /\ (lastExit.kind = "normal" /\ lastExit.value # sentinel)
          => /\ lastExit.after = lastExit.entry
             /\ override = lastExit.entry

\* C2 witness: an inner scope, nested in another one, whose body changed the
\* override to something that is neither the patched value nor the entry value,
\* ended normally and the entry value is back.
C2_Witness ==
    /\ lastExit.kind = "normal"
    /\ lastExit.value # sentinel
    /\ lastExit.touched
    /\ lastExit.before # lastExit.value
    /\ lastExit.before # lastExit.entry
    /\ lastExit.entry # sentinel
    /\ override = lastExit.entry
    /\ stack # <<>>

\* The computed default and the result of a history, read off the log alone:
\* the most recent set of a non-sentinel value not followed by a reset.
RECURSIVE Expected(_)
Expected(l) ==
    IF l = <<>> THEN ComputedDefault
    ELSE LET e == l[Len(l)]
         IN  IF e.op = "reset" THEN ComputedDefault
             ELSE IF e.value # sentinel THEN e.value
             ELSE Expected(SubSeq(l, 1, Len(l) - 1))

\* C6: after any sequence of set / reset calls outside a patch scope, get()
\* returns the argument of the most recent set of a non-sentinel value that no
\* reset followed, else the computed default (NotImplementedError for the base
\* Provider); get() itself leaves the override alone.
C6_SetResetHistory ==
    /\ get(override, cls, computed) = Expected(log)
    /\ (cls = "Provider" /\ Expected(log) \notin Vals)
          => get(override, cls, computed) = NotImplementedError
    /\ lastGet.called => lastGet.after = lastGet.before

\* C6 witness: set(v), later set(sentinel) as the last call, and get() called
\* and returning v.
C6_Witness ==
    /\ Len(log) >= 3
    /\ log[1].op = "reset"
    /\ log[2].op = "set" /\ log[2].value \in Vals
    /\ log[Len(log)].op = "set" /\ log[Len(log)].value = sentinel
    /\ lastGet.called /\ lastGet.result = log[2].value
    /\ lastGet.before = override

\* C7: P.patch(sentinel) is a pass-through: entering leaves the override as it
\* is, and leaving, normally or by a failure, restores nothing.
C7_PatchSentinelPassThrough ==
    /\ \A i \in DOMAIN stack :
          (stack[i].value = sentinel /\ ~stack[i].touched)
              => override = stack[i].entry
    /\ (lastExit.kind # "none" /\ lastExit.value = sentinel)
          => /\ lastExit.after = lastExit.before
             /\ override = lastExit.before

\* C7 witness: a patch(sentinel) scope whose body installed an override and then
\* failed has been left, and the override installed in the body is in force.
C7_Witness ==
    /\ lastExit.kind = "fail"
    /\ lastExit.value = sentinel
    /\ lastExit.touched
    /\ lastExit.entry = sentinel
    /\ override \in Vals

\* ---- the call site of the call in progress
\* The parameter is given an argument at the call site.
IsSupplied(p) == ParamIndex(p) <= Len(call.args) \/ p \in DOMAIN call.kwargs
\* The argument the call site gives for the parameter.
Supplied(p) ==
    IF ParamIndex(p) <= Len(call.args) THEN call.args[ParamIndex(p)] ELSE call.kwargs[p]
\* The call site is a legal call of f: no parameter is given twice.
ValidCallSite ==
    /\ Len(call.args) <= Len(Params)
    /\ \A p \in DOMAIN call.kwargs : ParamIndex(p) > Len(call.args)
\* A value as f must receive it: a Provider is replaced by its get().
Resolved(x) == IF x = ProviderA THEN Current ELSE x
\* The arguments are given by keyword, or positionally with no positional
\* argument other than the last one being a value the mode filters.
Dropped(x) == IF squeeze_none THEN x = None ELSE x = sentinel
NoShift == \A j \in 1..Len(call.args) : j < Len(call.args) => ~Dropped(call.args[j])

\* C5: in default mode a parameter given an explicit non-sentinel argument
\* (positional or keyword) receives that argument (its get() if it is a
\* Provider), and a parameter not supplied receives its default (the
\* Provider's get() at the time of the call, or the literal).
C5_InjectDeliversArguments ==
    (call.active /\ ~squeeze_none /\ ValidCallSite)
        => /\ call.status # "TypeError"
           /\ \A p \in ParamNames :
                /\ (IsSupplied(p) /\ Supplied(p) # sentinel)
                      => call.received[p] = Resolved(Supplied(p))
                /\ ~IsSupplied(p) => call.received[p] = Resolved(Default(p))

\* C8: a = None is filtered (a falls back to Provider_A.get()) only when f was
\* wrapped with squeeze_none; the sentinel is filtered only in default mode and
\* reaches f as it is in squeeze-none mode.
C8_FilterFollowsMode ==
    (call.active /\ ValidCallSite /\ NoShift)
        => \A p \in ParamNames :
              IsSupplied(p)
                  => /\ call.status # "TypeError"
                     /\ (squeeze_none /\ Supplied(p) = None)
                           => call.received[p] = Resolved(Default(p))
                     /\ (~squeeze_none /\ Supplied(p) = None)
                           => call.received[p] = None
                     /\ (~squeeze_none /\ Supplied(p) = sentinel)
                           => call.received[p] = Resolved(Default(p))
                     /\ (squeeze_none /\ Supplied(p) = sentinel)
                           => call.received[p] = sentinel

\* C8 witness: f wrapped with squeeze_none is called with a = None by keyword
\* while Provider_A holds an override, and f receives that override for a.
C8_Witness ==
    /\ call.active
    /\ squeeze_none
    /\ call.args = <<>>
    /\ "a" \in DOMAIN call.kwargs
    /\ call.kwargs["a"] = None
    /\ override \in Vals
    /\ call.received["a"] = override

\* C10: in default mode passing the sentinel for a parameter, by keyword or at
\* any positional slot, is the same as omitting it: that parameter takes its
\* default and every other parameter receives what the call site gave it.
C10_SentinelIsOmission ==
    (/\ call.active
     /\ ~squeeze_none
     /\ ValidCallSite
     /\ \E p \in ParamNames : IsSupplied(p) /\ Supplied(p) = sentinel)
        => /\ call.status # "TypeError"
           /\ \A p \in ParamNames :
                call.received[p] =
                    Resolved(IF IsSupplied(p) /\ Supplied(p) # sentinel
                             THEN Supplied(p) ELSE Default(p))

\* ---- sync_container, as the claims speak of it
FieldSet(type) == {Fields(type)[i] : i \in 1..Len(Fields(type))}
ProviderFields(type) == {f \in FieldSet(type) : f.default.kind = "provider"}
ContainerFields(type) == {f \in FieldSet(type) : f.default.kind = "container"}

\* The copies sync_container(from_, to_) makes, each from the Provider src into
\* the Provider dst: at the top level from the attribute of from_ into the
\* type-level default; for a nested container field from the attribute of the
\* declaration's nested default instance into the nested type's default.
Copies(from_, to_) ==
    {[dst |-> f.default.ref, src |-> getattr(from_, f.name).ref] :
        f \in {x \in ProviderFields(TypeOf(to_)) :
                  getattr(from_, x.name).kind = "provider"}}
    \cup UNION
    {{[dst |-> g.default.ref, src |-> getattr(f.default.ref, g.name).ref] :
        g \in {x \in ProviderFields(TypeOf(getattr(from_, f.name).ref)) :
                  getattr(f.default.ref, x.name).kind = "provider"}} :
        f \in {x \in ContainerFields(TypeOf(to_)) :
                  getattr(from_, x.name).kind = "container"}}

\* The copies the specification describes: from the type-level default into
\* the live instance's own Provider, at the top level and in nested containers.
Described(from_, to_) ==
    {[dst |-> getattr(from_, f.name).ref, src |-> f.default.ref] :
        f \in {x \in ProviderFields(TypeOf(to_)) :
                  getattr(from_, x.name).kind = "provider"}}
    \cup UNION
    {{[dst |-> getattr(getattr(from_, f.name).ref, g.name).ref, src |-> g.default.ref] :
        g \in {x \in ProviderFields(TypeOf(f.default.ref)) :
                  getattr(getattr(from_, f.name).ref, x.name).kind = "provider"}} :
        f \in {x \in ContainerFields(TypeOf(to_)) :
                  getattr(from_, x.name).kind = "container"}}

C9_StateFieldsAccrete ==
    /\ \A c \in DOMAIN classes :
          \A a \in classes[c].mro :
              classes[a].STATE_FIELDS \subseteq classes[c].STATE_FIELDS
    /\ exporter # NoInstance
          => /\ DOMAIN mapping = classes[exporter.cls].STATE_FIELDS
             /\ \A f \in DOMAIN mapping : mapping[f] = exporter.attrs[f]
    /\ fresh # NoInstance
          => /\ \A f \in classes[fresh.cls].STATE_FIELDS :
                   fresh.attrs[f] = exporter.attrs[f]
             /\ get(fresh.attrs["_override"], cls, computed)
                   = get(exporter.attrs["_override"], cls, computed)

\* C9 witness: a class with two unrelated ancestors that share the base
\* Provider and each add a field of their own; an instance of it holding an
\* override was exported, and a fresh instance that held other values has
\* imported the mapping.
C9_Witness ==
    /\ fresh # NoInstance
    /\ \E a1, a2 \in classes[fresh.cls].mro \ {"Provider"} :
          /\ a1 \notin classes[a2].mro /\ a2 \notin classes[a1].mro /\ a1 # a2
          /\ classes[a1].STATE_FIELDS # classes[a2].STATE_FIELDS
          /\ classes[a1].STATE_FIELDS # classes["Provider"].STATE_FIELDS
          /\ classes[a2].STATE_FIELDS # classes["Provider"].STATE_FIELDS
          /\ classes[fresh.cls].STATE_FIELDS # classes[a1].STATE_FIELDS
          /\ classes[fresh.cls].STATE_FIELDS # classes[a2].STATE_FIELDS
    /\ exporter.attrs["_override"] \in Vals
    /\ exporter.attrs["_cache"] # exporter.attrs["_override"]
    /\ fresh.attrs["_scratch"] # exporter.attrs["_scratch"]
    /\ fresh.attrs["_override"] = exporter.attrs["_override"]

====
